---- MODULE Spec2Model ----
(***************************************************************************)
(* plumber: the native-messaging daemon of browser-pipes.                  *)
(*                                                                         *)
(* The model follows cmd/plumber: main/startLoop/handleMessage/            *)
(* sendResponse (the dispatcher), ExecuteWorkflowV2/executeJob/            *)
(* executeCommand/executeStep/resolveParams (the engine) and               *)
(* Config.Validate/matches (the configuration).                            *)
(*                                                                         *)
(* Strings are sequences of tokens.  A token is a piece of a URL or of a    *)
(* script: a character, a word, or one of the delimiters of a placeholder  *)
(* ("<<parameters.", ">>"), so that "<<parameters.p>>" is three tokens.    *)
(* The daemon is one goroutine; its position is pc.  It blocks in two      *)
(* places: reading a frame from stdin and waiting for a child (cmd.Run).   *)
(* What a child does (exit code, output, files) is chosen by the           *)
(* environment.  The outbound stream is assumed to accept every write.     *)
(*                                                                         *)
(* resolveParams, injectSystemParams, cleanURL and the match of a job      *)
(* reference are also called on their own, the way the tests call them     *)
(* (SpecUnit).  injectSystemParams has no source in cmd/plumber, only its  *)
(* test; it follows the description of the system parameters.              *)
(***************************************************************************)
EXTENDS Integers, Sequences, FiniteSets, TLC

\* ---------------------------------------------------------------- bounds

\* frames the environment puts on stdin before it closes the stream
MaxFrames == 2
\* steps in one job or command
MaxSteps == 2
\* job references in one workflow
MaxRefs == 2
\* nesting of command invocations above which the model stops following a run
MaxDepth == 3

\* ------------------------------------------------------- generic helpers

EmptyMap == [k \in {} |-> <<>>]

Range(s) == {s[i] : i \in DOMAIN s}

SeqsUpTo(S, n) == UNION {[1..k -> S] : k \in 0..n}

\* the orders in which a Go `range` may visit the keys of a map
Perms(S) == {p \in [1..Cardinality(S) -> S] : Range(p) = S}

\* does old occur in s at position i
OccursAt(s, old, i) ==
    /\ i + Len(old) - 1 <= Len(s)
    /\ \A j \in 1..Len(old) : s[i + j - 1] = old[j]

\* strings.ReplaceAll on token sequences, for a needle that is not empty:
\* the occurrences are taken from the left and do not overlap
RECURSIVE ReplaceAll(_, _, _)
ReplaceAll(s, old, new) ==
    IF s = <<>> THEN <<>>
    ELSE IF OccursAt(s, old, 1)
         THEN new \o ReplaceAll(SubSeq(s, Len(old) + 1, Len(s)), old, new)
         ELSE <<Head(s)>> \o ReplaceAll(Tail(s), old, new)

\* ------------------------------------------------- configuration (types)

JobNames == {"j1", "j2"}
CommandNames == {"c1", "c2"}
WorkflowNames == {"w1", "w2"}
ParamNames == {"p", "q"}

\* the two spellings of a placeholder that resolveParams replaces:
\* "<<parameters.k>>" and "<< parameters.k >>"
Tight(k) == <<"<<parameters.", k, ">>">>
Spaced(k) == <<"<< parameters.", k, " >>">>

Step(name, args, params) == [name |-> name, args |-> args, params |-> params]

WorkflowJob(name, match, params) == [name |-> name, match |-> match, params |-> params]

Config(version, commands, jobs, workflows) ==
    [version |-> version, commands |-> commands, jobs |-> jobs, workflows |-> workflows]

\* a search that is anchored at the start of the input
matchesPrefix(pattern, input) ==
    IF pattern = <<>> THEN FALSE
    ELSE /\ \A i \in 1..Len(pattern) : pattern[i] # "("
         /\ Len(pattern) <= Len(input)
         /\ \A i \in 1..Len(pattern) : pattern[i] = "." \/ pattern[i] = input[i]

\* regexp.MatchString for patterns of literal characters and ".": an
\* unanchored search.  "(" stands for a pattern that does not compile.
MatchAt(pattern, input, off) ==
    /\ off + Len(pattern) <= Len(input)
    /\ \A i \in 1..Len(pattern) : pattern[i] = "." \/ pattern[i] = input[off + i]

Compiles(pattern) == \A i \in 1..Len(pattern) : pattern[i] # "("

matches(pattern, input) ==
    IF pattern = <<>> THEN FALSE
    ELSE IF ~Compiles(pattern) THEN FALSE
    ELSE \E off \in 0..Len(input) : MatchAt(pattern, input, off)

\* no error (nil); an error is the sequence of the pieces of its message
Nil == <<>>

\* strings.Contains for a piece of a message
Contains(msg, piece) == \E i \in DOMAIN msg : msg[i] = piece

\* the first error of a loop whose turns return errs[1], errs[2], ...
RECURSIVE FirstOf(_)
FirstOf(errs) ==
    IF errs = <<>> THEN Nil
    ELSE IF Head(errs) # Nil THEN Head(errs)
    ELSE FirstOf(Tail(errs))

\* a check of the references that looks at the regex only
RefErrorRegexOnly(c, w, i) ==
    LET jobRef == c.workflows[w].jobs[i] IN
    IF jobRef.match # <<>> /\ ~Compiles(jobRef.match)
    THEN <<"workflow '", w, "' job '", jobRef.name, "' ", "has ", "invalid match regex", " '">>
             \o jobRef.match \o <<"'">>
    ELSE Nil

\* a check of the references that looks at the job only
RefErrorJobOnly(c, w, i) ==
    LET jobRef == c.workflows[w].jobs[i] IN
    IF jobRef.name \notin DOMAIN c.jobs
    THEN <<"workflow '", w, "' ", "references undefined job", " '", jobRef.name, "'">>
    ELSE Nil

\* Validate 29-40: one job reference of a workflow
RefError(c, w, i) ==
    LET jobRef == c.workflows[w].jobs[i] IN
    IF jobRef.name \notin DOMAIN c.jobs
    THEN <<"workflow '", w, "' ", "references undefined job", " '", jobRef.name, "'">>
    ELSE IF jobRef.match # <<>> /\ ~Compiles(jobRef.match)
    THEN <<"workflow '", w, "' job '", jobRef.name, "' ", "has ", "invalid match regex", " '">>
             \o jobRef.match \o <<"'">>
    ELSE Nil

\* a check of the steps that does not look at the bindings
StepErrorNoParams(c, j, i, ko) ==
    LET step == c.jobs[j].steps[i] IN
    IF step.name = "run" THEN Nil
    ELSE IF step.name \notin DOMAIN c.commands
    THEN <<"job '", j, "' step ", ToString(i), " ", "references undefined command",
           " '", step.name, "'">>
    ELSE Nil

\* a check of the steps that does not look for the command
StepErrorParamsOnly(c, j, i, ko) ==
    LET step == c.jobs[j].steps[i] IN
    IF step.name = "run" \/ step.name \notin DOMAIN c.commands THEN Nil
    ELSE FirstOf([n \in DOMAIN ko |->
                    IF ko[n] \in DOMAIN step.params
                       /\ ko[n] \notin DOMAIN c.commands[step.name].parameters
                    THEN <<"job '", j, "' step ", ToString(i), " ",
                           "passes unknown parameter", " '", ko[n],
                           "' to command '", step.name, "'">>
                    ELSE Nil])

\* Validate 45-61: one step of a job; ko is the order in which the range
\* over the bindings of a step visits parameter names
StepError(c, j, i, ko) ==
    LET step == c.jobs[j].steps[i] IN
    IF step.name = "run" THEN Nil
    ELSE IF step.name \notin DOMAIN c.commands
    THEN <<"job '", j, "' step ", ToString(i), " ", "references undefined command",
           " '", step.name, "'">>
    ELSE FirstOf([n \in DOMAIN ko |->
                    IF ko[n] \in DOMAIN step.params
                       /\ ko[n] \notin DOMAIN c.commands[step.name].parameters
                    THEN <<"job '", j, "' step ", ToString(i), " ",
                           "passes unknown parameter", " '", ko[n],
                           "' to command '", step.name, "'">>
                    ELSE Nil])

\* Config.Validate 22-65: nil or the first error; wo and jo are the orders
\* in which the ranges over c.Workflows and c.Jobs visit their keys
ValidateError(c, wo, jo, ko) ==
    IF c.version = "" THEN <<"version is missing">>
    ELSE LET inWorkflows ==
                 FirstOf([n \in DOMAIN wo |->
                    FirstOf([i \in DOMAIN c.workflows[wo[n]].jobs |-> RefError(c, wo[n], i)])])
             inJobs ==
                 FirstOf([n \in DOMAIN jo |->
                    FirstOf([i \in DOMAIN c.jobs[jo[n]].steps |-> StepError(c, jo[n], i, ko)])])
         IN IF inWorkflows # Nil THEN inWorkflows ELSE inJobs

\* the names a step can bind: the declared ones and one that no command
\* declares
BindingNames == ParamNames \cup {"z"}

\* what Validate can return for c
ValidateErrors(c) ==
    {ValidateError(c, wo, jo, ko) :
        wo \in Perms(DOMAIN c.workflows), jo \in Perms(DOMAIN c.jobs), ko \in Perms(BindingNames)}

\* Config.Validate returns nil
Validate(c) == ValidateErrors(c) = {Nil}

\* loadConfig 102-105 after decoding: the version must be present
loadConfigError(c) ==
    IF c.version = ""
    THEN <<"invalid config: ", "missing 'version'", " (must be '2')">>
    ELSE Nil

\* loadConfig returns nil
loadConfig(c) == loadConfigError(c) = Nil

\* --------------------------------------------------------------- URLs

\* A URL is a sequence of tokens: the separators "?", "#", "&" and "=",
\* a space, "%" for a percent sign that starts no escape, the escapes
\* "%20", "%23", "%2B", "%3D", "%3F" and "+", words, and at the head
\* "HTTP://h/" or "http://h/" for a scheme, a host and the root of the path.

\* cleanURL 187-190: the query parameters it removes
paramsToDelete ==
    {"utm_source", "utm_medium", "utm_campaign", "utm_term", "utm_content",
     "fbclid", "gclid", "ref"}

\* position of the first tok of s at or after i, 0 when it has none
RECURSIVE IndexOf(_, _, _)
IndexOf(s, tok, i) ==
    IF i > Len(s) THEN 0 ELSE IF s[i] = tok THEN i ELSE IndexOf(s, tok, i + 1)

\* strings.Split
RECURSIVE Split(_, _)
Split(s, sep) ==
    LET i == IndexOf(s, sep, 1) IN
    IF i = 0 THEN <<s>>
    ELSE <<SubSeq(s, 1, i - 1)>> \o Split(SubSeq(s, i + 1, Len(s)), sep)

Has(s, tok) == IndexOf(s, tok, 1) # 0

\* url.getScheme and the authority: the scheme is lower-cased
Heads == {"HTTP://h/", "http://h/"}

HasHead(rawURL) == rawURL # <<>> /\ Head(rawURL) \in Heads

\* url.unescape in the modes of a path and of a fragment
PathUnescapeTok(t) ==
    CASE t = "%20" -> " " [] t = "%23" -> "#" [] t = "%2B" -> "+"
      [] t = "%3D" -> "=" [] t = "%3F" -> "?" [] OTHER -> t

\* a decoding of a query component that leaves "+" alone
QueryUnescapeTokKeepsPlus(t) ==
    CASE t = "%20" -> " " [] t = "%23" -> "#" [] t = "%2B" -> "+"
      [] t = "%3D" -> "=" [] t = "%3F" -> "?" [] OTHER -> t

\* url.QueryUnescape: as unescape, and "+" is a space
QueryUnescapeTok(t) ==
    CASE t = "+" -> " " [] t = "%20" -> " " [] t = "%23" -> "#" [] t = "%2B" -> "+"
      [] t = "%3D" -> "=" [] t = "%3F" -> "?" [] OTHER -> t

\* url.escape in the mode of a path: "=", "+" and "&" are left alone
PathEscapeTok(t) ==
    CASE t = " " -> "%20" [] t = "#" -> "%23" [] t = "?" -> "%3F" [] OTHER -> t

\* url.escape in the mode of a fragment: "?" is left alone too
FragmentEscapeTok(t) ==
    CASE t = " " -> "%20" [] t = "#" -> "%23" [] OTHER -> t

\* url.QueryEscape
QueryEscapeTok(t) ==
    CASE t = " " -> "+" [] t = "#" -> "%23" [] t = "+" -> "%2B"
      [] t = "=" -> "%3D" [] t = "?" -> "%3F" [] OTHER -> t

\* the part of rawURL before the fragment, without the head
Rest(rawURL) ==
    LET h == IndexOf(rawURL, "#", 1)
        r == IF h = 0 THEN rawURL ELSE SubSeq(rawURL, 1, h - 1)
    IN IF HasHead(r) THEN Tail(r) ELSE r

\* url.Parse: the text after the first "#"
RawFragment(rawURL) ==
    LET h == IndexOf(rawURL, "#", 1) IN
    IF h = 0 THEN <<>> ELSE SubSeq(rawURL, h + 1, Len(rawURL))

\* url.parse: a single "?" at the end is kept as ForceQuery
ForceQuery(rawURL) ==
    LET r == Rest(rawURL) IN
    r # <<>> /\ r[Len(r)] = "?" /\ IndexOf(r, "?", 1) = Len(r)

\* url.parse: the text between the first "?" and the fragment
RawQuery(rawURL) ==
    LET r == Rest(rawURL)
        q == IndexOf(r, "?", 1)
    IN IF q = 0 THEN <<>> ELSE SubSeq(r, q + 1, Len(r))

RawPath(rawURL) ==
    LET r == Rest(rawURL)
        q == IndexOf(r, "?", 1)
    IN IF q = 0 THEN r ELSE SubSeq(r, 1, q - 1)

\* url.Parse returns an error for a path or a fragment with a malformed
\* escape; the query is not looked at
ParseFails(rawURL) == Has(RawPath(rawURL), "%") \/ Has(RawFragment(rawURL), "%")

\* URL.EscapedPath: the path as it was written when that is a valid
\* encoding, the default encoding of the decoded path otherwise
EscapedPath(rawURL) ==
    LET raw == RawPath(rawURL) IN
    IF ~Has(raw, " ") THEN raw
    ELSE [i \in DOMAIN raw |-> PathEscapeTok(PathUnescapeTok(raw[i]))]

\* URL.EscapedFragment, in the same way
EscapedFragment(rawURL) ==
    LET raw == RawFragment(rawURL) IN
    IF ~Has(raw, " ") /\ ~Has(raw, "#") THEN raw
    ELSE [i \in DOMAIN raw |-> FragmentEscapeTok(PathUnescapeTok(raw[i]))]

\* url.ParseQuery as URL.Query calls it, the error dropped: the pairs in
\* their order; an empty pair and a pair with a malformed escape are
\* skipped
ParseQuery(query) ==
    LET pairs == SelectSeq(Split(query, "&"), LAMBDA pr : pr # <<>> /\ ~Has(pr, "%"))
        KeyOf(pr) == IF Has(pr, "=") THEN SubSeq(pr, 1, IndexOf(pr, "=", 1) - 1) ELSE pr
        ValueOf(pr) == IF Has(pr, "=") THEN SubSeq(pr, IndexOf(pr, "=", 1) + 1, Len(pr)) ELSE <<>>
    IN [i \in DOMAIN pairs |->
          [key |-> [k \in DOMAIN KeyOf(pairs[i]) |-> QueryUnescapeTok(KeyOf(pairs[i])[k])],
           value |-> [k \in DOMAIN ValueOf(pairs[i]) |-> QueryUnescapeTok(ValueOf(pairs[i])[k])]]]

\* Values.Del for each name of paramsToDelete
Del(q) == SelectSeq(q, LAMBDA pr : ~(Len(pr.key) = 1 /\ pr.key[1] \in paramsToDelete))

\* the order of the bytes the tokens of a key start with
ByteOrder ==
    <<" ", "#", "+", "=", "?", "HTTP://h/", "a", "b", "c", "fbclid", "gclid", "http://h/",
      "id", "keep", "ref", "utm_campaign", "utm_content", "utm_medium", "utm_source",
      "utm_term">>

Rank(t) == IndexOf(ByteOrder, t, 1)

\* k1 < k2 as strings
RECURSIVE Less(_, _)
Less(k1, k2) ==
    IF k2 = <<>> THEN FALSE
    ELSE IF k1 = <<>> THEN TRUE
    ELSE IF Head(k1) = Head(k2) THEN Less(Tail(k1), Tail(k2))
    ELSE Rank(Head(k1)) < Rank(Head(k2))

\* Values.Encode: the keys sorted, the values of a key in their order,
\* escaped and joined by "&"
RECURSIVE Join(_)
Join(ps) ==
    IF ps = <<>> THEN <<>>
    ELSE IF Len(ps) = 1 THEN Head(ps)
    ELSE Head(ps) \o <<"&">> \o Join(Tail(ps))

Encode(q) ==
    LET keys == {q[i].key : i \in DOMAIN q}
        sorted == CHOOSE p \in Perms(keys) : \A i, j \in DOMAIN p : i < j => Less(p[i], p[j])
        Escaped(s) == [i \in DOMAIN s |-> QueryEscapeTok(s[i])]
        OfKey(k) == LET vs == SelectSeq(q, LAMBDA pr : pr.key = k)
                    IN Join([i \in DOMAIN vs |-> Escaped(k) \o <<"=">> \o Escaped(vs[i].value)])
    IN Join([i \in DOMAIN sorted |-> OfKey(sorted[i])])

\* URL.String
String(hasHead, path, forceQuery, query, fragment) ==
    (IF hasHead THEN <<"http://h/">> ELSE <<>>)
        \o path
        \o (IF forceQuery \/ query # <<>> THEN <<"?">> \o query ELSE <<>>)
        \o (IF fragment # <<>> THEN <<"#">> \o fragment ELSE <<>>)

\* a handleMessage that routes the URL as it came
cleanURLRaw(rawURL) == rawURL

\* cleanURL 180-198
cleanURL(rawURL) ==
    IF ParseFails(rawURL) THEN rawURL
    ELSE String(HasHead(rawURL), EscapedPath(rawURL), ForceQuery(rawURL),
                Encode(Del(ParseQuery(RawQuery(rawURL)))), EscapedFragment(rawURL))

\* ------------------------------------------------------------ resolution

\* a resolution in which a placeholder of a name that is not in the scope
\* resolves to nothing
Strip(s, k, params) ==
    IF k \in DOMAIN params THEN s
    ELSE ReplaceAll(ReplaceAll(s, Spaced(k), <<>>), Tight(k), <<>>)

RECURSIVE resolveParamsStrip(_, _, _)
resolveParamsStrip(input, params, order) ==
    IF order = <<>> THEN Strip(Strip(input, "p", params), "q", params)
    ELSE LET k == Head(order)
             r1 == ReplaceAll(input, Spaced(k), params[k])
             r2 == ReplaceAll(r1, Tight(k), params[k])
         IN resolveParamsStrip(r2, params, Tail(order))

\* a resolution that returns from inside the loop, after the first key
resolveParamsFirstKey(input, params, order) ==
    IF order = <<>> THEN input
    ELSE LET k == Head(order)
             r1 == ReplaceAll(input, Spaced(k), params[k])
         IN ReplaceAll(r1, Tight(k), params[k])

\* resolveParams with the scope's keys visited in the given order
RECURSIVE resolveParams(_, _, _)
resolveParams(input, params, order) ==
    IF order = <<>> THEN input
    ELSE LET k == Head(order)
             r1 == ReplaceAll(input, Spaced(k), params[k])
             r2 == ReplaceAll(r1, Tight(k), params[k])
         IN resolveParams(r2, params, Tail(order))

\* the strings resolveParams can return (Go visits a map in any order)
ResolveOutcomes(input, params) ==
    {resolveParams(input, params, o) : o \in Perms(DOMAIN params)}

\* bindings that start from a copy of the caller's scope
ResolvedCallParamsInherit(step, scopeParams) ==
    {[k \in DOMAIN step.params \cup DOMAIN scopeParams |->
         IF k \in DOMAIN step.params THEN f[k] ELSE scopeParams[k]] :
       f \in {g \in [DOMAIN step.params -> UNION {ResolveOutcomes(step.params[k], scopeParams) : k \in DOMAIN step.params}] :
                 \A k \in DOMAIN step.params : g[k] \in ResolveOutcomes(step.params[k], scopeParams)}}

\* executeStep 150-153: the call's bindings resolved against the caller's scope
ResolvedCallParams(step, scopeParams) ==
    {f \in [DOMAIN step.params -> UNION {ResolveOutcomes(step.params[k], scopeParams) : k \in DOMAIN step.params}] :
        \A k \in DOMAIN step.params : f[k] \in ResolveOutcomes(step.params[k], scopeParams)}

\* a command whose defaults override the call's bindings
finalParamsDefaultsWin(cmdDef, callParams) ==
    [k \in DOMAIN cmdDef.parameters \cup DOMAIN callParams |->
        IF k \in DOMAIN cmdDef.parameters THEN cmdDef.parameters[k].default ELSE callParams[k]]

\* executeCommand 97-107: defaults overridden by the call's bindings
finalParams(cmdDef, callParams) ==
    [k \in DOMAIN cmdDef.parameters \cup DOMAIN callParams |->
        IF k \in DOMAIN callParams THEN callParams[k] ELSE cmdDef.parameters[k].default]

\* executeStep 126-128: the script handed to sh -c
Scripts(step, scopeParams, url) ==
    {ReplaceAll(s, <<"{url}">>, url) : s \in ResolveOutcomes(step.args, scopeParams)}

\* ------------------------------------------------- the configurations

RunX == Step("run", <<"x">>, EmptyMap)
RunP == Step("run", <<"echo">> \o Tight("p") \o <<"{url}">>, EmptyMap)
Call(name) == Step(name, <<>>, EmptyMap)

NoCommands == EmptyMap

Command(parameters, steps) == [parameters |-> parameters, steps |-> steps]
Job(steps) == [steps |-> steps]
Workflow(jobs) == [jobs |-> jobs]

\* routing: fixed jobs, every choice of workflows and job references
RoutingJobs == ("j1" :> Job(<<RunX>>)) @@ ("j2" :> Job(<<RunP>>))

RefSet ==
    {WorkflowJob("j1", <<>>, EmptyMap),
     WorkflowJob("j2", <<".", "b">>, "p" :> <<"v">>)}

\* w1 with up to MaxRefs references, w2 with at most one
WorkflowMaps ==
    {w \in UNION {[names -> {Workflow(refs) : refs \in SeqsUpTo(RefSet, MaxRefs)}] :
                     names \in SUBSET WorkflowNames} :
        "w2" \in DOMAIN w => Len(w["w2"].jobs) <= 1}

RoutingConfigs == {Config("2", NoCommands, RoutingJobs, w) : w \in WorkflowMaps}

\* execution: one match-all reference, every choice of steps
OneWorkflow == "w1" :> Workflow(<<WorkflowJob("j1", <<"a">>, EmptyMap)>>)

JobSteps == SeqsUpTo({RunX, Call("c1")}, MaxSteps)
C1Steps == SeqsUpTo({RunX, Call("c2")}, MaxSteps)
C2Steps == {<<RunX>>, <<Call("c1")>>, <<RunX, Call("zz")>>, <<Call("zz"), RunX>>}

ExecutionConfigs ==
    {Config("2",
            ("c1" :> Command(EmptyMap, s1)) @@ ("c2" :> Command("p" :> [default |-> <<"d">>], s2)),
            "j1" :> Job(sj),
            OneWorkflow) : sj \in JobSteps, s1 \in C1Steps, s2 \in C2Steps}

\* scopes: what a step finds in the scope of its job or command

\* `run: {command: ..., save_to: p}` as Step.UnmarshalYAML decodes it: a
\* mapping goes to Params, Args stays empty
RunSave == Step("run", <<>>, ("command" :> <<"echo", "v">>) @@ ("save_to" :> <<"p">>))
RunHtml == Step("run", <<"cat", "{html}">>, EmptyMap)
RunUrl == Step("run", <<"echo">> \o Tight("url") \o Tight("url_hash"), EmptyMap)

\* WorkflowJob.UnmarshalYAML 223-255: an item of a workflow's job list is
\* a bare name, or a mapping from the name to a mapping of keys; of the
\* keys, match goes to Match and every other one to the inline Params
WorkflowJobUnmarshalYAML(value) ==
    IF value.kind = "scalar"
    THEN WorkflowJob(value.name, <<>>, EmptyMap)
    ELSE WorkflowJob(value.name,
                     IF "match" \in DOMAIN value.content THEN value.content["match"] ELSE <<>>,
                     [k \in DOMAIN value.content \ {"match"} |-> value.content[k]])

ScopeJobSteps ==
    {<<Step("c2", <<>>, EmptyMap), RunP>>,
     <<Step("c2", <<>>, "p" :> Tight("q")), RunP>>,
     <<RunSave, RunP>>,
     <<RunHtml>>,
     <<RunUrl>>}

\* the parameters the workflow binds for the job
ScopeBindings ==
    {EmptyMap, ("p" :> <<"v">>) @@ ("q" :> <<"u">>), "url" :> <<"v">>,
     ("p" :> Tight("q")) @@ ("q" :> <<"u">>)}

ScopeConfigs ==
    {Config("2",
            "c2" :> Command("p" :> [default |-> <<"d">>], <<RunSave, RunP>>),
            "j1" :> Job(sj),
            "w1" :> Workflow(<<WorkflowJobUnmarshalYAML(
                                  [kind |-> "mapping", name |-> "j1",
                                   content |-> ("match" :> <<"a">>) @@ ps])>>)) :
        sj \in ScopeJobSteps, ps \in ScopeBindings}

\* routing on what cleanURL removes and on what it leaves: the second URL
\* of Urls has "utm_source" before it is cleaned, and not after
CanonicalConfigs ==
    {Config("2",
            "c2" :> Command("p" :> [default |-> <<"d">>], <<RunP>>),
            ("j1" :> Job(<<Call("c2")>>)) @@ ("j2" :> Job(<<RunP>>)),
            "w1" :> Workflow(refs)) :
        refs \in {<<WorkflowJob("j1", <<"c">>, EmptyMap), WorkflowJob("j2", <<"utm_source">>, EmptyMap)>>,
                  <<WorkflowJob("j2", <<"utm_source">>, EmptyMap)>>}}

\* configurations that main rejects
RejectedConfigs ==
    {Config("", NoCommands, RoutingJobs, OneWorkflow),
     Config("2", NoCommands, RoutingJobs, "w1" :> Workflow(<<WorkflowJob("j3", <<>>, EmptyMap)>>)),
     Config("2", NoCommands, RoutingJobs, "w1" :> Workflow(<<WorkflowJob("j1", <<"(">>, EmptyMap)>>)),
     Config("2", NoCommands, "j1" :> Job(<<Call("zz")>>), OneWorkflow)}

\* a version that is present and is not "2", in a configuration with no
\* other defect
OtherVersionConfigs == {Config("3", NoCommands, RoutingJobs, OneWorkflow)}

\* a step that binds a name its command does not declare
CallZ(name) == Step(name, <<>>, "z" :> <<"v">>)

OneCommand == "c1" :> Command("p" :> [default |-> <<"d">>], <<RunX>>)

\* configurations with more than one defect
DefectConfigs ==
    {Config("2", NoCommands, RoutingJobs,
            "w1" :> Workflow(<<WorkflowJob("j1", <<"(">>, EmptyMap), WorkflowJob("j3", <<>>, EmptyMap)>>)),
     Config("2", NoCommands, RoutingJobs,
            "w1" :> Workflow(<<WorkflowJob("j3", <<"(">>, EmptyMap)>>)),
     Config("2", NoCommands, RoutingJobs,
            ("w1" :> Workflow(<<WorkflowJob("j3", <<>>, EmptyMap)>>))
               @@ ("w2" :> Workflow(<<WorkflowJob("j1", <<"(">>, EmptyMap)>>))),
     Config("", NoCommands, RoutingJobs,
            "w1" :> Workflow(<<WorkflowJob("j3", <<>>, EmptyMap)>>)),
     Config("2", OneCommand, "j1" :> Job(<<CallZ("c1")>>), OneWorkflow),
     Config("2", OneCommand, "j1" :> Job(<<CallZ("c1"), Call("zz")>>), OneWorkflow),
     Config("2", OneCommand,
            ("j1" :> Job(<<Call("zz")>>)) @@ ("j2" :> Job(<<CallZ("c1")>>)), OneWorkflow),
     Config("2", OneCommand,
            "j1" :> Job(<<Step("c1", <<>>, ("p" :> <<"v">>) @@ ("z" :> <<"v">>))>>), OneWorkflow),
     Config("2", NoCommands, "j1" :> Job(<<Call("zz")>>),
            "w1" :> Workflow(<<WorkflowJob("j3", <<>>, EmptyMap)>>))}

Configs ==
    RoutingConfigs \cup ExecutionConfigs \cup ScopeConfigs \cup RejectedConfigs
        \cup OtherVersionConfigs \cup DefectConfigs \cup CanonicalConfigs

\* the order of the workflows in the configuration file
WorkflowOrder == <<"w1", "w2">>

\* ------------------------------------------------------ inbound frames

Urls == {<<"a", "b">>, <<"c", "?", "utm_source", "&", "keep">>}

\* the page the extension sends along with the URL
Html == <<"<html>">>

\* a limit that refuses a frame of exactly the maximum
TooLargeFromMax(length) == length >= 10 * 1024 * 1024

\* startLoop 113, 132: length > maxSize
TooLarge(length) == length > 10 * 1024 * 1024

\* a frame on stdin: the length its header declares, and what follows
Frame(kind, url, length) ==
    [kind |-> kind, url |-> url, length |-> length,
     html |-> IF kind = "envelope" THEN Html ELSE <<>>]

\* what one turn of startLoop can find on stdin: envelopes, one of them
\* of exactly the maximum length, frames that declare more than the
\* maximum, by one byte or by far, and the ways a read can fail
Frames ==
    {Frame("envelope", <<"a", "b">>, 64),
     Frame("envelope", <<"c", "?", "utm_source", "&", "keep">>, 10 * 1024 * 1024),
     Frame("envelope", <<"a", "b">>, 10 * 1024 * 1024 + 1),
     Frame("bad json", <<>>, 2147483647),
     Frame("bad json", <<>>, 64),
     Frame("short body", <<>>, 64),
     Frame("eof", <<>>, 0),
     Frame("header error", <<>>, 0)}

\* ---------------------------------------------------------------- state

VARIABLES
    cfg,        \* the global Config, loaded once
    pc,         \* where the daemon is: main, read, wf, step, child, fail, exited
    nframes,    \* frames taken from stdin so far
    nmsgs,      \* envelopes decoded so far
    url,        \* env.URL of the last message, cleaned
    wfOrder,    \* the order in which this run ranges over cfg.Workflows
    wi,         \* position in wfOrder
    ri,         \* position in the current workflow's job references
    matched,    \* ExecuteWorkflowV2's local
    stack,      \* the calls in progress: executeJob, then executeCommand frames
    err,        \* the error being returned
    stdout,     \* everything written to the outbound stream, in order
    children,   \* the child processes started for this message, in order
    execs,      \* the calls of executeJob for this message, in order
    trace,      \* start and return of every step of this message, in order
    fs,         \* directories and files on disk
    call,       \* a function of the engine called on its own, as its tests do
    frame,      \* what the last turn of startLoop read: header, length, body,
                \* and the URL of the envelope as it was sent
    cfgErr      \* the message main died with (log.Fatalf), Nil if it did not

vars == <<cfg, pc, nframes, nmsgs, url, wfOrder, wi, ri, matched, stack, err,
          stdout, children, execs, trace, fs, call, frame, cfgErr>>

\* the directory the daemon was started in; exec.Command leaves cmd.Dir
\* empty, so a child runs in it
ProcCwd == "cwd"

\* the directories that exist when the daemon starts
StartDirs == {ProcCwd}

NoErr == [kind |-> "", name |-> "", url |-> <<>>]
Error(kind, name, u) == [kind |-> kind, name |-> name, url |-> u]

CallFrame(kind, name, steps, scope) ==
    [kind |-> kind, name |-> name, steps |-> steps, idx |-> 1, scope |-> scope]

Top == stack[Len(stack)]

\* the step each call in progress is at, outermost first
Path == [i \in 1..Len(stack) |-> stack[i].idx]

Event(ev, exec, path, e) == [ev |-> ev, exec |-> exec, path |-> path, err |-> e]

\* sendResponse: one frame, a length prefix and the JSON of the Response
sendResponse(out, status, e, msg) ==
    Append(out, [kind |-> "frame", status |-> status, err |-> e, msg |-> msg])

\* the daemon calls its functions itself: no call from outside
NoCall == [fn |-> "", input |-> <<>>, params |-> EmptyMap, url |-> <<>>, results |-> <<>>]

\* nothing read yet
NoFrame == [header |-> "", length |-> 0, body |-> "", url |-> <<>>]

Init ==
    /\ cfg \in Configs
    /\ pc = "main"
    /\ nframes = 0
    /\ nmsgs = 0
    /\ url = <<>>
    /\ wfOrder = <<>>
    /\ wi = 1
    /\ ri = 1
    /\ matched = FALSE
    /\ stack = <<>>
    /\ err = NoErr
    /\ stdout = <<>>
    /\ children = <<>>
    /\ execs = <<>>
    /\ trace = <<>>
    /\ fs = [dirs |-> StartDirs, files |-> {}]
    /\ call = NoCall
    /\ frame = NoFrame
    /\ cfgErr = Nil

\* main 53-74: load and validate the configuration, then enter the loop;
\* log.Fatalf ends the process with the error in its message
main ==
    /\ pc = "main"
    /\ IF ~loadConfig(cfg)
       THEN /\ cfgErr' = <<"Failed to load config: ">> \o loadConfigError(cfg)
            /\ pc' = "exited"
       ELSE \E e \in ValidateErrors(cfg) :
               IF e # Nil
               THEN /\ cfgErr' = <<"Configuration is invalid: ">> \o e
                    /\ pc' = "exited"
               ELSE /\ cfgErr' = Nil
                    /\ pc' = "read"
    /\ UNCHANGED <<call, frame, cfg, nframes, nmsgs, url, wfOrder, wi, ri, matched, stack, err,
                   stdout, children, execs, trace, fs>>

\* handleMessage 165-172 up to the first loop of ExecuteWorkflowV2
handleMessage(env) ==
    /\ url' = cleanURL(env.url)
    /\ nmsgs' = nmsgs + 1
    /\ matched' = FALSE
    /\ wfOrder' \in Perms(DOMAIN cfg.workflows)
    /\ wi' = 1
    /\ ri' = 1
    /\ children' = <<>>
    /\ execs' = <<>>
    /\ trace' = <<>>
    /\ pc' = "wf"

\* a loop that gives up on a payload it cannot decode
decodeErrorFatal ==
    /\ pc' = "exited"
    /\ UNCHANGED <<url, nmsgs, matched, wfOrder, wi, ri, children, execs, trace>>

\* startLoop 145-149: a payload that is not envelope JSON is logged and
\* the loop continues
decodeError ==
    UNCHANGED <<pc, url, nmsgs, matched, wfOrder, wi, ri, children, execs, trace>>

\* one turn of the loop of startLoop, taken when the daemon is at one of
\* the positions in at
ReadTurn(at) ==
    /\ pc \in at
    /\ \E f \in Frames :
          /\ nframes = MaxFrames => f.kind = "eof"
          /\ nframes' = IF f.kind = "eof" THEN nframes ELSE nframes + 1
          /\ IF f.kind \in {"eof", "header error"}
             THEN /\ frame' = [header |-> f.kind, length |-> 0, body |-> "", url |-> <<>>]
                  /\ pc' = "exited"
                  /\ UNCHANGED <<url, nmsgs, matched, wfOrder, wi, ri, children, execs, trace>>
             ELSE IF TooLarge(f.length)
             THEN /\ frame' = [header |-> "ok", length |-> f.length, body |-> "unread", url |-> <<>>]
                  /\ pc' = "exited"
                  /\ UNCHANGED <<url, nmsgs, matched, wfOrder, wi, ri, children, execs, trace>>
             ELSE IF f.kind = "short body"
             THEN /\ frame' = [header |-> "ok", length |-> f.length, body |-> f.kind, url |-> <<>>]
                  /\ pc' = "exited"
                  /\ UNCHANGED <<url, nmsgs, matched, wfOrder, wi, ri, children, execs, trace>>
             ELSE IF f.kind = "bad json"
             THEN /\ frame' = [header |-> "ok", length |-> f.length, body |-> f.kind, url |-> <<>>]
                  /\ decodeError
             ELSE /\ frame' = [header |-> "ok", length |-> f.length, body |-> f.kind, url |-> f.url]
                  /\ handleMessage(f)
    /\ UNCHANGED <<cfgErr, call, cfg, stack, err, stdout, fs>>

\* a loop that starts handleMessage without waiting for it, and reads on
startLoopEarly == ReadTurn({"read", "child"})

\* a loop that reads on while a job is between two steps
startLoopAnyTime == ReadTurn({"read", "step"})

\* startLoop: the next frame is read when handleMessage has returned
startLoop == ReadTurn({"read"})

\* ExecuteWorkflowV2 40-48: does the job reference apply to the URL
isMatch(jobRef, u) == matches(jobRef.match, u) \/ jobRef.match = <<>>

\* a loop in which the first match of a workflow wins (break)
AfterJobBreak(w, r) == <<w + 1, 1>>

\* ExecuteWorkflowV2 67-76: after a job that succeeded the loops go on
AfterJob(w, r) == <<w, r + 1>>

\* ExecuteWorkflowV2: one turn of the inner loop, up to the call of executeJob
ExecuteWorkflowV2 ==
    /\ pc = "wf"
    /\ wi <= Len(wfOrder)
    /\ LET refs == cfg.workflows[wfOrder[wi]].jobs IN
       IF ri > Len(refs)
       THEN /\ wi' = wi + 1
            /\ ri' = 1
            /\ UNCHANGED <<pc, stack, execs>>
       ELSE LET jobRef == refs[ri] IN
            IF isMatch(jobRef, url) /\ jobRef.name \in DOMAIN cfg.jobs
            THEN /\ stack' = <<CallFrame("job", jobRef.name, cfg.jobs[jobRef.name].steps, jobRef.params)>>
                 /\ execs' = Append(execs, [msg |-> nmsgs, wf |-> wfOrder[wi], ri |-> ri,
                                            name |-> jobRef.name, status |-> "running"])
                 /\ pc' = "step"
                 /\ UNCHANGED <<wi, ri>>
            ELSE /\ ri' = ri + 1
                 /\ UNCHANGED <<pc, wi, stack, execs>>
    /\ UNCHANGED <<cfgErr, call, frame, cfg, nframes, nmsgs, url, wfOrder, matched, err, stdout, children, trace, fs>>

\* an ExecuteWorkflowV2 that returns nil when nothing matched
NoMatchResultNil(m, u) == NoErr

\* ExecuteWorkflowV2 79-82: the result once every workflow has been visited
NoMatchResult(m, u) ==
    IF ~m THEN Error("no matching jobs found for url", "", u) ELSE NoErr

\* a handleMessage that answers only when the workflow succeeded
RespondSuccessOnly(out, e, msg) ==
    IF e # NoErr THEN out
    ELSE sendResponse(out, "success", NoErr, msg)

\* handleMessage 172-177: the response for the result of ExecuteWorkflowV2
Respond(out, e, msg) ==
    IF e # NoErr THEN sendResponse(out, "error", e, msg)
    ELSE sendResponse(out, "success", NoErr, msg)

\* the locals of handleMessage and ExecuteWorkflowV2 end with the calls
Returned ==
    /\ wfOrder' = <<>>
    /\ wi' = 1
    /\ ri' = 1
    /\ matched' = FALSE

\* ExecuteWorkflowV2 returns after the loops; handleMessage answers and
\* startLoop goes back to reading
ExecuteWorkflowV2Return ==
    /\ pc = "wf"
    /\ wi > Len(wfOrder)
    /\ stdout' = Respond(stdout, NoMatchResult(matched, url), nmsgs)
    /\ Returned
    /\ pc' = "read"
    /\ UNCHANGED <<cfgErr, call, frame, cfg, nframes, nmsgs, url, stack, err, children, execs, trace, fs>>

\* cmd.Start in place of cmd.Run: the step returns while its child runs
cmdStart(script) ==
    /\ children' = Append(children,
          [msg |-> nmsgs, exec |-> Len(execs), path |-> Path, cwd |-> ProcCwd,
           script |-> script, status |-> "running",
           sees |-> {g \in fs.files : g.dir = ProcCwd}])
    /\ trace' = trace \o <<Event("start", Len(execs), Path, NoErr), Event("ok", Len(execs), Path, NoErr)>>
    /\ stack' = [stack EXCEPT ![Len(stack)].idx = @ + 1]
    /\ UNCHANGED <<pc, err>>

\* executeStep 133-138: cmd.Run starts sh -c script and waits for it
cmdRun(script) ==
    /\ children' = Append(children,
          [msg |-> nmsgs, exec |-> Len(execs), path |-> Path, cwd |-> ProcCwd,
           script |-> script, status |-> "running",
           sees |-> {g \in fs.files : g.dir = ProcCwd}])
    /\ trace' = Append(trace, Event("start", Len(execs), Path, NoErr))
    /\ pc' = "child"
    /\ UNCHANGED <<stack, err>>

\* executeStep: the step the innermost call is at, up to cmd.Run or to the
\* call of executeCommand
executeStep ==
    /\ pc = "step"
    /\ Top.idx <= Len(Top.steps)
    /\ LET step == Top.steps[Top.idx] IN
       IF step.name = "run"
       THEN \E script \in Scripts(step, Top.scope, url) : \E started \in BOOLEAN :
               IF started THEN cmdRun(script)
               ELSE /\ err' = Error("run step failed", "", <<>>)
                    /\ trace' = trace \o <<Event("start", Len(execs), Path, NoErr),
                                            Event("err", Len(execs), Path, err')>>
                    /\ pc' = "fail"
                    /\ UNCHANGED <<stack, children>>
       ELSE IF step.name \in DOMAIN cfg.commands
       THEN /\ Len(stack) <= MaxDepth
            /\ \E resolvedCallParams \in ResolvedCallParams(step, Top.scope) :
                 stack' = Append(stack,
                    CallFrame("cmd", step.name, cfg.commands[step.name].steps,
                              finalParams(cfg.commands[step.name], resolvedCallParams)))
            /\ trace' = Append(trace, Event("start", Len(execs), Path, NoErr))
            /\ UNCHANGED <<pc, err, children>>
       ELSE /\ err' = Error("unknown command or step", step.name, <<>>)
            /\ trace' = trace \o <<Event("start", Len(execs), Path, NoErr),
                                    Event("err", Len(execs), Path, err')>>
            /\ pc' = "fail"
            /\ UNCHANGED <<stack, children>>
    /\ UNCHANGED <<cfgErr, call, frame, cfg, nframes, nmsgs, url, wfOrder, wi, ri, matched, stdout, execs, fs>>

\* how a child can end: its exit code
ChildOutcomes == {0, 1}

\* a script that writes to its standard output
Prints(script) == script # <<>> /\ Head(script) = "echo"

SetStatus(cs, st) == [cs EXCEPT ![Len(cs)].status = st]

\* a step that stores what it printed in the map it resolves from
StepDoneSaves(st) ==
    [st EXCEPT ![Len(st)].idx = @ + 1, ![Len(st)].scope = ("saved" :> <<"v">>) @@ @]

StepDone(st) == [st EXCEPT ![Len(st)].idx = @ + 1]

\* the file a script writes, by a relative path, when it succeeds
Writes(script) == IF script = <<>> \/ Head(script) \in {"echo", "cat"} THEN {} ELSE {Head(script)}

\* a step that goes on without waiting for its child (cmd.Start)
cmdRunReturnDetached ==
    /\ pc = "child"
    /\ stack' = StepDone(stack)
    /\ trace' = Append(trace, Event("ok", Len(execs), Path, NoErr))
    /\ pc' = "step"
    /\ UNCHANGED <<cfgErr, call, frame, cfg, nframes, nmsgs, url, wfOrder, wi, ri, matched, execs,
                   err, stdout, children, fs>>

\* cmd.Run returns: the child has exited.  Its stdout is os.Stdout
cmdRunReturn ==
    /\ pc = "child"
    /\ \E exit \in ChildOutcomes :
          /\ stdout' = IF Prints(children[Len(children)].script)
                       THEN Append(stdout, [kind |-> "child", status |-> "", err |-> NoErr, msg |-> nmsgs])
                       ELSE stdout
          /\ IF exit = 0
             THEN /\ children' = SetStatus(children, "ok")
                  /\ fs' = [fs EXCEPT !.files = @ \cup
                              {[dir |-> children[Len(children)].cwd, name |-> n] :
                                  n \in Writes(children[Len(children)].script)}]
                  /\ trace' = Append(trace, Event("ok", Len(execs), Path, NoErr))
                  /\ stack' = StepDone(stack)
                  /\ pc' = "step"
                  /\ UNCHANGED err
             ELSE /\ children' = SetStatus(children, "failed")
                  /\ err' = Error("run step failed", "", <<>>)
                  /\ trace' = Append(trace, Event("err", Len(execs), Path, err'))
                  /\ pc' = "fail"
                  /\ UNCHANGED <<fs, stack>>
    /\ UNCHANGED <<cfgErr, call, frame, cfg, nframes, nmsgs, url, wfOrder, wi, ri, matched, execs>>

\* a command that works on the caller's map: what it bound is still there
\* when it returns
executeCommandLeak ==
    /\ pc = "step"
    /\ Top.idx > Len(Top.steps)
    /\ Top.kind = "cmd"
    /\ stack' = StepDone([SubSeq(stack, 1, Len(stack) - 1) EXCEPT ![Len(stack) - 1].scope = Top.scope @@ @])
    /\ trace' = Append(trace, Event("ok", Len(execs), SubSeq(Path, 1, Len(stack) - 1), NoErr))
    /\ UNCHANGED <<cfgErr, call, frame, cfg, pc, nframes, nmsgs, url, wfOrder, wi, ri, matched, err, stdout,
                   children, execs, fs>>

\* executeCommand 115: every step of the command returned nil
executeCommand ==
    /\ pc = "step"
    /\ Top.idx > Len(Top.steps)
    /\ Top.kind = "cmd"
    /\ stack' = StepDone(SubSeq(stack, 1, Len(stack) - 1))
    /\ trace' = Append(trace, Event("ok", Len(execs), SubSeq(Path, 1, Len(stack) - 1), NoErr))
    /\ UNCHANGED <<cfgErr, call, frame, cfg, pc, nframes, nmsgs, url, wfOrder, wi, ri, matched, err, stdout,
                   children, execs, fs>>

\* executeJob 91: every step of the job returned nil; ExecuteWorkflowV2 67
executeJob ==
    /\ pc = "step"
    /\ Top.idx > Len(Top.steps)
    /\ Top.kind = "job"
    /\ stack' = <<>>
    /\ execs' = SetStatus(execs, "ok")
    /\ matched' = TRUE
    /\ wi' = AfterJob(wi, ri)[1]
    /\ ri' = AfterJob(wi, ri)[2]
    /\ pc' = "wf"
    /\ UNCHANGED <<cfgErr, call, frame, cfg, nframes, nmsgs, url, wfOrder, err, stdout, children, trace, fs>>

\* the command steps around a failed step return its error, innermost first
ErrEvents(exec, path, e) ==
    [i \in 1..(Len(path) - 1) |-> Event("err", exec, SubSeq(path, 1, Len(path) - i), e)]

\* an ExecuteWorkflowV2 that logs the failure of a job and goes on (continue)
returnErrContinue ==
    /\ pc = "fail"
    /\ trace' = trace \o ErrEvents(Len(execs), Path, err)
    /\ stack' = <<>>
    /\ execs' = SetStatus(execs, "failed")
    /\ err' = NoErr
    /\ ri' = ri + 1
    /\ pc' = "wf"
    /\ UNCHANGED <<cfgErr, call, frame, cfg, nframes, nmsgs, url, wfOrder, wi, matched, stdout, children, fs>>

\* a step loop that drops the error of a step and goes on with the next
returnErrSwallow ==
    /\ pc = "fail"
    /\ stack' = StepDone(stack)
    /\ err' = NoErr
    /\ pc' = "step"
    /\ UNCHANGED <<cfgErr, call, frame, cfg, nframes, nmsgs, url, wfOrder, wi, ri, matched, stdout, children,
                   execs, trace, fs>>

\* the error goes up: executeStep 139/158, executeCommand 112, executeJob 88,
\* ExecuteWorkflowV2 65, handleMessage 173-174
returnErr ==
    /\ pc = "fail"
    /\ trace' = trace \o ErrEvents(Len(execs), Path, err)
    /\ stack' = <<>>
    /\ execs' = SetStatus(execs, "failed")
    /\ stdout' = Respond(stdout, err, nmsgs)
    /\ err' = NoErr
    /\ Returned
    /\ pc' = "read"
    /\ UNCHANGED <<cfgErr, call, frame, cfg, nframes, nmsgs, url, children, fs>>

Next ==
    \/ main
    \/ startLoop
    \/ ExecuteWorkflowV2
    \/ ExecuteWorkflowV2Return
    \/ executeStep
    \/ cmdRunReturn
    \/ executeCommand
    \/ executeJob
    \/ returnErr

Spec == Init /\ [][Next]_vars

\* ------------------------------------- the functions called on their own

\* pieces of a template given to resolveParams
MaxParts == 3

\* what a template is made of: text, placeholders in both spellings, and
\* the delimiters of a placeholder on their own
Pieces ==
    {<<"a">>, Tight("p"), Spaced("p"), Tight("q"), <<"<<parameters.">>, <<">>">>}

RECURSIVE Concat(_)
Concat(ss) == IF ss = <<>> THEN <<>> ELSE Head(ss) \o Concat(Tail(ss))

Templates == {Concat(ps) : ps \in SeqsUpTo(Pieces, MaxParts)}

\* the values of a scope: text, nothing, a placeholder, a parameter name
Values == {<<"w">>, <<>>, Tight("q"), <<"q">>}

Scopes == UNION {[names -> Values] : names \in SUBSET ParamNames}

DirectCall(fn, input, params, u) ==
    [fn |-> fn, input |-> input, params |-> params, url |-> u, results |-> <<>>]

\* the match expressions and URLs isMatch is called on: literals and ".",
\* and patterns that do not compile
Patterns == SeqsUpTo({"a", "b", "."}, MaxParts) \cup {<<"(">>, <<"a", "(">>}

PlainUrls == SeqsUpTo({"a", "b"}, MaxParts)

\* the items of a workflow's job list as YAML nodes: a bare name, a name
\* with a match, a name with inline keys only
JobItems ==
    {[kind |-> "scalar", name |-> "j1"]}
        \cup {[kind |-> "mapping", name |-> "j1", content |-> "match" :> m] : m \in Patterns}
        \cup {[kind |-> "mapping", name |-> "j1", content |-> "p" :> <<"a">>]}

\* tokens of a URL given to cleanURL
MaxUrlLen == 4

\* what a URL given to cleanURL is made of
UrlTokens == {" ", "%", "?", "&", "#", "=", "utm_source", "keep"}

\* the URLs cleanURL is called on: every short sequence of tokens, with
\* and without a scheme and host, and longer ones in the manner of
\* TestCleanURL
RawUrls ==
    SeqsUpTo(UrlTokens, MaxUrlLen)
        \cup {<<"HTTP://h/">> \o r : r \in SeqsUpTo(UrlTokens, MaxUrlLen - 1)}
        \cup {<<"HTTP://h/", "a", "?", "fbclid", "=", "b", "&", "keep", "=", "c">>,
               <<"http://h/", "?", "keep", "=", "a", "&", "id", "=", "b", "&", "keep", "=", "c">>,
               <<"http://h/", "a", " ", "b", "?", "ref", "=", "a", "#", "c", " ">>}

\* an injection in which the system parameters win on a name in both
injectSystemParamsSystemWins(params, u) ==
    [k \in {"url", "url_hash"} \cup DOMAIN params |->
        IF k = "url" THEN u
        ELSE IF k = "url_hash" THEN <<"sha256[:8]">> \o u
        ELSE params[k]]

\* injectSystemParams: url and url_hash, then the given parameters (the
\* later wins on a name in both)
injectSystemParams(params, u) ==
    [k \in {"url", "url_hash"} \cup DOMAIN params |->
        IF k \in DOMAIN params THEN params[k]
        ELSE IF k = "url" THEN u
        ELSE <<"sha256[:8]">> \o u]

\* the parameters a workflow binds in TestInjectSystemParams and around it
BoundParams ==
    UNION {[names -> {<<"alice">>, <<"v">>}] : names \in SUBSET {"user", "url", "url_hash"}}

\* YAML nodes: a scalar standing for a step, a scalar value, a mapping
\* value, a sequence
NameNode(n) == [kind |-> "scalar", name |-> n]
TextNode(t) == [kind |-> "scalar", text |-> t]
MapNode(m) == [kind |-> "mapping", content |-> m]
SeqNode == [kind |-> "sequence"]

\* the keys of the step mappings of TestStepUnmarshaling
StepKeys == {"run", "c1"}

\* what a key of a step mapping can have as value: a string, a mapping of
\* strings, a mapping with a value that is no string, a sequence
ValNodes ==
    {TextNode(<<"echo", "hi">>),
     MapNode(EmptyMap),
     MapNode(("p" :> TextNode(<<"v">>)) @@ ("q" :> TextNode(<<"u">>))),
     MapNode(("p" :> TextNode(<<"v">>)) @@ ("q" :> SeqNode)),
     SeqNode}

Entries == {[key |-> k, val |-> v] : k \in StepKeys, v \in ValNodes}

\* the items of a list of steps as YAML nodes: a bare name, a mapping of
\* no, one or two keys, a sequence
StepNodes ==
    {NameNode(n) : n \in StepKeys}
        \cup {[kind |-> "mapping", content |-> es] : es \in SeqsUpTo(Entries, 2)}
        \cup {SeqNode}

\* a decoder that takes a string for any key
StepUnmarshalYAMLAnyScalar(value) ==
    IF value.kind = "scalar"
    THEN [err |-> Nil, step |-> Step(value.name, <<>>, EmptyMap)]
    ELSE IF value.kind = "mapping" /\ Len(value.content) = 1 /\ value.content[1].val.kind = "scalar"
    THEN [err |-> Nil, step |-> Step(value.content[1].key, value.content[1].val.text, EmptyMap)]
    ELSE [err |-> <<"invalid step format">>, step |-> Step("", <<>>, EmptyMap)]

\* Step.UnmarshalYAML 180-220: the error returned and the Step as the
\* decoder leaves it
StepUnmarshalYAML(value) ==
    IF value.kind = "scalar"
    THEN [err |-> Nil, step |-> Step(value.name, <<>>, EmptyMap)]
    ELSE IF value.kind = "mapping"
    THEN IF Len(value.content) # 1
         THEN [err |-> <<"step map must have exactly one key (the command name)">>,
               step |-> Step("", <<>>, EmptyMap)]
         ELSE LET key == value.content[1].key
                  valNode == value.content[1].val
              IN IF valNode.kind = "scalar"
                 THEN IF key = "run"
                      THEN [err |-> Nil, step |-> Step(key, valNode.text, EmptyMap)]
                      ELSE [err |-> <<"unexpected string argument for command '", key,
                                      "' (only 'run' supports this)">>,
                            step |-> Step(key, <<>>, EmptyMap)]
                 ELSE IF valNode.kind = "mapping"
                 THEN IF \A k \in DOMAIN valNode.content : valNode.content[k].kind = "scalar"
                      THEN [err |-> Nil,
                            step |-> Step(key, <<>>,
                                          [k \in DOMAIN valNode.content |-> valNode.content[k].text])]
                      ELSE [err |-> <<"failed to decode parameters for command '", key, "': ">>,
                            step |-> Step(key, <<>>, EmptyMap)]
                 ELSE [err |-> <<"invalid step format">>, step |-> Step(key, <<>>, EmptyMap)]
    ELSE [err |-> <<"invalid step format">>, step |-> Step("", <<>>, EmptyMap)]

UnitInit ==
    /\ cfg = Config("", NoCommands, EmptyMap, EmptyMap)
    /\ pc = "unit"
    /\ nframes = 0
    /\ nmsgs = 0
    /\ url = <<>>
    /\ wfOrder = <<>>
    /\ wi = 1
    /\ ri = 1
    /\ matched = FALSE
    /\ stack = <<>>
    /\ err = NoErr
    /\ stdout = <<>>
    /\ children = <<>>
    /\ execs = <<>>
    /\ trace = <<>>
    /\ fs = [dirs |-> StartDirs, files |-> {}]
    /\ frame = NoFrame
    /\ cfgErr = Nil
    /\ \/ \E t \in Templates, sc \in Scopes : call = DirectCall("resolveParams", t, sc, <<>>)
       \/ \E ps \in BoundParams, u \in Urls : call = DirectCall("injectSystemParams", <<>>, ps, u)
       \/ \E item \in JobItems, u \in PlainUrls : call = DirectCall("isMatch", <<>>, item, u)
       \/ \E r \in RawUrls : call = DirectCall("cleanURL", r, EmptyMap, <<>>)
       \/ \E node \in StepNodes : call = DirectCall("StepUnmarshalYAML", <<>>, node, <<>>)

\* resolveParams called on a template, and then on its own result
callResolveParams ==
    /\ call.fn = "resolveParams"
    /\ Len(call.results) < 2
    /\ \E order \in Perms(DOMAIN call.params) :
          LET input == IF call.results = <<>> THEN call.input ELSE call.results[1]
          IN call' = [call EXCEPT !.results = Append(@, resolveParams(input, call.params, order))]
    /\ UNCHANGED <<cfgErr, frame, cfg, pc, nframes, nmsgs, url, wfOrder, wi, ri, matched, stack, err,
                   stdout, children, execs, trace, fs>>

callInjectSystemParams ==
    /\ call.fn = "injectSystemParams"
    /\ call.results = <<>>
    /\ call' = [call EXCEPT !.results = <<injectSystemParams(call.params, call.url)>>]
    /\ UNCHANGED <<cfgErr, frame, cfg, pc, nframes, nmsgs, url, wfOrder, wi, ri, matched, stack, err,
                   stdout, children, execs, trace, fs>>

\* ExecuteWorkflowV2 40-48 on a job reference as the decoder delivers it
callIsMatch ==
    /\ call.fn = "isMatch"
    /\ call.results = <<>>
    /\ call' = [call EXCEPT !.results = <<isMatch(WorkflowJobUnmarshalYAML(call.params), call.url)>>]
    /\ UNCHANGED <<cfgErr, frame, cfg, pc, nframes, nmsgs, url, wfOrder, wi, ri, matched, stack, err,
                   stdout, children, execs, trace, fs>>

\* cleanURL called on a URL, and then on its own result
callCleanURL ==
    /\ call.fn = "cleanURL"
    /\ Len(call.results) < 2
    /\ LET input == IF call.results = <<>> THEN call.input ELSE call.results[1]
       IN call' = [call EXCEPT !.results = Append(@, cleanURL(input))]
    /\ UNCHANGED <<cfgErr, frame, cfg, pc, nframes, nmsgs, url, wfOrder, wi, ri, matched, stack, err,
                   stdout, children, execs, trace, fs>>

\* yaml.Unmarshal of a list of steps calls Step.UnmarshalYAML on an item
callStepUnmarshalYAML ==
    /\ call.fn = "StepUnmarshalYAML"
    /\ call.results = <<>>
    /\ call' = [call EXCEPT !.results = <<StepUnmarshalYAML(call.params)>>]
    /\ UNCHANGED <<cfgErr, frame, cfg, pc, nframes, nmsgs, url, wfOrder, wi, ri, matched, stack, err,
                   stdout, children, execs, trace, fs>>

UnitNext ==
    \/ callResolveParams
    \/ callInjectSystemParams
    \/ callIsMatch
    \/ callCleanURL
    \/ callStepUnmarshalYAML

SpecUnit == UnitInit /\ [][UnitNext]_vars

\* ------------------------------------------------------------ properties

\* the response frames on the outbound stream, in order
ResponseFrames == SelectSeq(stdout, LAMBDA e : e.kind = "frame")

LastResponse == ResponseFrames[Len(ResponseFrames)]

\* handleMessage has returned for every envelope decoded so far
Idle == pc \in {"read", "exited"}

\* the job references of the configuration that apply to the URL
MatchingRefs ==
    {<<w, i>> \in WorkflowNames \X (1..(MaxRefs + 1)) :
        /\ w \in DOMAIN cfg.workflows
        /\ i <= Len(cfg.workflows[w].jobs)
        /\ isMatch(cfg.workflows[w].jobs[i], url)}

Executed == {<<execs[i].wf, execs[i].ri>> : i \in DOMAIN execs}

C2_Serial ==
    /\ Len(ResponseFrames) \in {nmsgs - 1, nmsgs}
    /\ pc = "read" => Len(ResponseFrames) = nmsgs
    /\ \A k \in DOMAIN ResponseFrames : ResponseFrames[k].msg = k

C2_Witness ==
    /\ nmsgs = 2
    /\ pc = "child"
    /\ Len(ResponseFrames) = 1
    /\ ResponseFrames[1].msg = 1

\* C3: when ExecuteWorkflowV2 has returned and no job failed, the job
\* references executed are exactly those that match the URL, each once, in
\* whichever workflow they are
C3_EveryMatchExecuted ==
    (Idle /\ nmsgs > 0 /\ \A i \in DOMAIN execs : execs[i].status = "ok") =>
        /\ Executed = MatchingRefs
        /\ Len(execs) = Cardinality(MatchingRefs)

C3_Witness ==
    /\ pc = "read"
    /\ Len(execs) = 3
    /\ \A i \in DOMAIN execs : execs[i].status = "ok"
    /\ execs[1].wf = execs[2].wf
    /\ execs[3].wf # execs[1].wf

\* position of a workflow in the configuration file
Pos(w) == CHOOSE i \in DOMAIN WorkflowOrder : WorkflowOrder[i] = w

\* C4: the jobs of a message are executed in configuration order: workflows
\* in the order of the configuration file and, within a workflow, job
\* references in list order
C4_ConfigurationOrder ==
    \A i, j \in DOMAIN execs :
        i < j => \/ Pos(execs[i].wf) < Pos(execs[j].wf)
                 \/ execs[i].wf = execs[j].wf /\ execs[i].ri < execs[j].ri

StepErrors == {"run step failed", "unknown command or step"}

\* C5: a failed job is the last job executed for its message:
\* ExecuteWorkflowV2 has returned its error and the response of the message
\* is an error response carrying it
C5_FirstJobErrorAborts ==
    \A i \in DOMAIN execs :
        execs[i].status = "failed" =>
            /\ i = Len(execs)
            /\ Idle
            /\ LastResponse.msg = nmsgs
            /\ LastResponse.status = "error"
            /\ LastResponse.err.kind \in StepErrors

C5_Witness ==
    /\ pc = "read"
    /\ Len(execs) = 2
    /\ execs[1].status = "ok"
    /\ execs[2].status = "failed"
    /\ MatchingRefs \ Executed # {}

NoMatch == nmsgs > 0 /\ MatchingRefs = {}

\* C6: while a message whose URL no job reference matches is handled, no
\* job is executed and no child is started; the step that ends its handling
\* writes an error response "no matching jobs found for url" and takes the
\* daemon back to reading frames
C6_NoMatch ==
    [][(pc = "wf" /\ NoMatch) =>
          /\ children' = <<>> /\ execs' = <<>>
          /\ pc' \in {"wf", "read"}
          /\ pc' = "read" =>
                /\ Len(stdout') = Len(stdout) + 1
                /\ stdout'[Len(stdout')] =
                      [kind |-> "frame", status |-> "error", msg |-> nmsgs,
                       err |-> Error("no matching jobs found for url", "", url)]]_vars

C6_Witness ==
    /\ nmsgs = 2
    /\ Len(ResponseFrames) = 2
    /\ ResponseFrames[1].err.kind = "no matching jobs found for url"
    /\ ResponseFrames[2].status = "success"
    /\ children # <<>>

\* the step before the step at path p, in the same job or command
Prev(p) == [p EXCEPT ![Len(p)] = @ - 1]

\* C7: the steps of a job and of a command run in declaration order, one
\* after the other: a step is started once, after the step before it has
\* returned without error, and while a child runs the engine waits for it
\* and starts nothing
C7_StepsInOrder ==
    /\ \A k \in DOMAIN trace :
          trace[k].ev = "start" =>
             LET p == trace[k].path
                 e == trace[k].exec
             IN /\ \/ p[Len(p)] = 1
                   \/ \E k2 \in 1..(k - 1) : trace[k2] = Event("ok", e, Prev(p), NoErr)
                /\ \A k2 \in 1..(k - 1) :
                      (trace[k2].ev = "start" /\ trace[k2].exec = e) => trace[k2].path # p
    /\ \A i \in DOMAIN children :
          children[i].status = "running" =>
             /\ i = Len(children)
             /\ pc = "child"
             /\ trace[Len(trace)] = Event("start", children[i].exec, children[i].path, NoErr)

C7_Witness ==
    /\ Len(children) = 3
    /\ children[1].path = <<1, 1>>
    /\ children[2].path = <<1, 2>>
    /\ children[3].path = <<2>>
    /\ children[3].status = "ok"

\* C8: once a step has failed (its child exited non-zero or did not start,
\* or it names an unknown command) no step is started any more in its job:
\* only the command steps around it return, with the same error, and the
\* job fails with that error
C8_FirstStepErrorAborts ==
    \A k \in DOMAIN trace :
        trace[k].ev = "err" =>
            /\ trace[k].err.kind \in StepErrors
            /\ trace[k].exec = Len(execs)
            /\ \A k2 \in (k + 1)..Len(trace) :
                  /\ trace[k2].ev = "err"
                  /\ trace[k2].err = trace[k].err
                  /\ Len(trace[k2].path) < Len(trace[k].path)
            /\ pc = "fail" \/ Idle
            /\ Idle => /\ execs[Len(execs)].status = "failed"
                       /\ LastResponse.msg = nmsgs
                       /\ LastResponse.err = trace[k].err

C8_Witness ==
    /\ pc = "read"
    /\ \E k \in DOMAIN trace :
          /\ trace[k].ev = "err"
          /\ trace[k].err.kind = "unknown command or step"
          /\ trace[k].path = <<1, 1, 2>>
    /\ Len(cfg.jobs["j1"].steps) = 2
    /\ Len(cfg.commands["c1"].steps) = 2
    /\ \E i \in DOMAIN ResponseFrames : ResponseFrames[i].err.kind = "run step failed"

\* C9: every child of a job execution runs in the workspace of that
\* execution, a directory made for it, and sees the files that the earlier
\* steps of the job wrote by a relative path
C9_ChildrenRunInWorkspace ==
    \A i \in DOMAIN children :
        /\ children[i].cwd \notin StartDirs
        /\ \A j \in 1..(i - 1) :
              children[j].exec = children[i].exec =>
                 /\ children[j].cwd = children[i].cwd
                 /\ children[j].status = "ok" =>
                       \A n \in Writes(children[j].script) :
                          [dir |-> children[i].cwd, name |-> n] \in children[i].sees

\* C10: once executeJob has returned, with nil or with an error, the
\* directory its children ran in no longer exists
C10_WorkspaceRemoved ==
    \A i \in DOMAIN children :
        execs[children[i].exec].status \in {"ok", "failed"} =>
            children[i].cwd \notin fs.dirs

\* number of occurrences of old in s that ReplaceAll replaces
RECURSIVE Count(_, _)
Count(s, old) ==
    IF s = <<>> THEN 0
    ELSE IF OccursAt(s, old, 1) THEN 1 + Count(SubSeq(s, Len(old) + 1, Len(s)), old)
         ELSE Count(Tail(s), old)

\* the delimiters of a placeholder: the tokens that hold "<" or ">"
Delims == {"<<parameters.", "<< parameters.", ">>", " >>"}

Plain(s) == \A i \in DOMAIN s : s[i] \notin Delims

\* the parameters a template refers to
Referenced(t) == {k \in ParamNames : Count(t, Tight(k)) + Count(t, Spaced(k)) > 0}

\* the input of the r-th call of resolveParams
InputOf(r) == IF r = 1 THEN call.input ELSE call.results[r - 1]

\* C17: resolveParams returns a string whatever the scope, and a
\* placeholder of a name that is not in the scope is still in it: as often
\* as in the input, and the input comes back as it is when it refers to no
\* name of the scope
C17_AbsentPlaceholderKept ==
    call.fn = "resolveParams" =>
        \A r \in DOMAIN call.results :
            /\ call.results[r] \in Seq(STRING)
            /\ \A k \in ParamNames \ DOMAIN call.params :
                  /\ Count(call.results[r], Tight(k)) >= Count(InputOf(r), Tight(k))
                  /\ Count(call.results[r], Spaced(k)) >= Count(InputOf(r), Spaced(k))
            /\ Referenced(InputOf(r)) \cap DOMAIN call.params = {} => call.results[r] = InputOf(r)

C17_Witness ==
    /\ call.fn = "resolveParams"
    /\ call.input = Tight("p") \o <<"a">> \o Tight("q")
    /\ call.params = ("p" :> <<"w">>)
    /\ call.results = << <<"w", "a">> \o Tight("q") >>

\* C18: resolution is not recursive: when a template is text around one
\* placeholder and the value of its parameter holds a placeholder of a
\* name in the scope, the result is the text around the value as it is
C18_NotRecursive ==
    (call.fn = "resolveParams" /\ call.results # <<>>) =>
        \A k \in DOMAIN call.params : \A i \in 1..Len(call.input) :
            LET pre == SubSeq(call.input, 1, i - 1)
                post == SubSeq(call.input, i + 3, Len(call.input))
            IN (/\ OccursAt(call.input, Tight(k), i) \/ OccursAt(call.input, Spaced(k), i)
                /\ Plain(pre) /\ Plain(post)
                /\ Referenced(call.params[k]) \cap DOMAIN call.params # {})
               => call.results[1] = pre \o call.params[k] \o post

\* C19 as stated: resolving the result again gives the result, when all
\* the parameters the template refers to are in the scope
C19_Idempotent ==
    (call.fn = "resolveParams" /\ Len(call.results) = 2
       /\ Referenced(call.input) \subseteq DOMAIN call.params)
    => call.results[2] = call.results[1]

\* every "<" and ">" of the template is in a placeholder of a name in the scope
WellFormed(t, params) ==
    \A i \in DOMAIN t :
        t[i] \in Delims =>
            \E k \in DOMAIN params : \E j \in {i, i - 2} :
                j >= 1 /\ (OccursAt(t, Tight(k), j) \/ OccursAt(t, Spaced(k), j))

\* C19 amended: resolving the result again gives the result, when no value
\* of the scope holds "<" or ">" and every "<" and ">" of the template is
\* in a placeholder of a name in the scope
C19_IdempotentPlain ==
    (call.fn = "resolveParams" /\ Len(call.results) = 2
       /\ WellFormed(call.input, call.params)
       /\ \A k \in DOMAIN call.params : Plain(call.params[k]))
    => call.results[2] = call.results[1]

C19_Witness ==
    /\ call.fn = "resolveParams"
    /\ Len(call.results) = 2
    /\ call.input = Tight("p") \o Tight("q") \o Spaced("p")
    /\ call.params = ("p" :> <<"w">>) @@ ("q" :> <<"q">>)
    /\ call.results[1] = <<"w", "q", "w">>
    /\ call.results[2] = call.results[1]

WrittenBefore(i) ==
    UNION {{[dir |-> children[j].cwd, name |-> n] : n \in Writes(children[j].script)} :
             j \in {j2 \in 1..(i - 1) : children[j2].exec = children[i].exec /\ children[j2].status = "ok"}}

\* C11: two job executions never use the same working directory, and a
\* child sees no file that a job execution other than its own left
C11_OwnWorkspace ==
    /\ \A i, j \in DOMAIN children :
          children[i].exec # children[j].exec => children[i].cwd # children[j].cwd
    /\ \A i \in DOMAIN children : children[i].sees \subseteq WrittenBefore(i)

\* what a script writes to its standard output
Output(script) == IF Prints(script) THEN Tail(script) \o <<"\n">> ELSE <<>>

\* strings.TrimSpace
RECURSIVE TrimLeft(_)
TrimLeft(s) == IF s # <<>> /\ Head(s) \in {" ", "\n"} THEN TrimLeft(Tail(s)) ELSE s

RECURSIVE TrimRight(_)
TrimRight(s) ==
    IF s # <<>> /\ s[Len(s)] \in {" ", "\n"} THEN TrimRight(SubSeq(s, 1, Len(s) - 1)) ELSE s

TrimSpace(s) == TrimRight(TrimLeft(s))

\* the step before the one the innermost call is at is a shell step with save_to
AfterSaveTo ==
    /\ stack # <<>>
    /\ Top.idx > 1
    /\ Top.steps[Top.idx - 1].name = "run"
    /\ "save_to" \in DOMAIN Top.steps[Top.idx - 1].params

\* C12: when a shell step with save_to = K has exited with code zero, the
\* scope of its job or command maps K to what the child wrote to its
\* standard output, trimmed, and the script of the next step holds no
\* placeholder of K any more
C12_SaveTo ==
    AfterSaveTo =>
        LET K == Top.steps[Top.idx - 1].params["save_to"][1] IN
        /\ pc = "step" =>
              /\ K \in DOMAIN Top.scope
              /\ Top.scope[K] = TrimSpace(Output(Top.steps[Top.idx - 1].params["command"]))
        /\ pc = "child" =>
              Count(children[Len(children)].script, Tight(K)) = 0

\* C13: what a command binds stays in the command: no step changes the
\* scope of a call in progress, so the scope of the caller is after a
\* command-reference step what it was before it
C13_NoLeak ==
    [][\A i \in DOMAIN stack : i <= Len(stack') => stack'[i].scope = stack[i].scope]_vars

C13_Witness ==
    /\ pc = "step"
    /\ Len(stack) = 1
    /\ Top.idx = 2
    /\ Top.steps[1].name = "c2"
    /\ Top.scope = ("p" :> <<"v">>) @@ ("q" :> <<"u">>)
    /\ Len(children) = 2
    /\ children[1].path = <<1, 1>>
    /\ cfg.commands["c2"].steps[1] = RunSave
    /\ children[2].script = <<"echo", "d", "a", "b">>

SystemParams == {"url", "url_hash"}

\* the command-reference step that made the i-th call in progress
CallStep(i) == stack[i - 1].steps[stack[i - 1].idx]

\* C14 as stated: a name of the caller's scope that is no system parameter
\* and is not bound by the command-reference step is not in the scope of
\* the command
C14_NoInheritance ==
    \A i \in 2..Len(stack) : \A k \in DOMAIN stack[i - 1].scope :
        (k \notin SystemParams /\ k \notin DOMAIN CallStep(i).params) =>
            k \notin DOMAIN stack[i].scope

\* C14 amended: such a name is in the scope of the command only when the
\* command declares a parameter of that name, and then with the default of
\* the parameter, not with the value of the caller
C14_NoInheritanceButDefaults ==
    \A i \in 2..Len(stack) : \A k \in DOMAIN stack[i - 1].scope :
        (k \notin SystemParams /\ k \notin DOMAIN CallStep(i).params) =>
            \/ k \notin DOMAIN stack[i].scope
            \/ /\ k \in DOMAIN cfg.commands[stack[i].name].parameters
               /\ stack[i].scope[k] = cfg.commands[stack[i].name].parameters[k].default

C14_Witness ==
    /\ Len(stack) = 2
    /\ stack[1].scope = ("p" :> <<"v">>) @@ ("q" :> <<"u">>)
    /\ CallStep(2).params = EmptyMap
    /\ stack[2].scope = ("p" :> <<"d">>)
    /\ pc = "child"

\* the job reference being executed
CurrentRef == cfg.workflows[execs[Len(execs)].wf].jobs[execs[Len(execs)].ri]

\* C15: url and url_hash are in the scope of every call in progress, url
\* with the cleaned URL of the message, and the script of a child holds no
\* placeholder of them
C15_SystemParams ==
    /\ \A i \in DOMAIN stack : SystemParams \subseteq DOMAIN stack[i].scope
    /\ (stack # <<>> /\ "url" \notin DOMAIN CurrentRef.params) => stack[1].scope["url"] = url
    /\ \A i \in DOMAIN children : \A k \in SystemParams :
          Count(children[i].script, Tight(k)) + Count(children[i].script, Spaced(k)) = 0

\* C20: a child whose step names {html} is started with a script in which
\* {html} is the path of a file in its working directory, a directory of
\* the job, and the file is there when it starts
C20_HtmlStaged ==
    (pc = "child" /\ \E i \in DOMAIN Top.steps[Top.idx].args : Top.steps[Top.idx].args[i] = "{html}") =>
        LET c == children[Len(children)] IN
        /\ c.cwd \notin StartDirs
        /\ \A i \in DOMAIN c.script : c.script[i] # "{html}"
        /\ \E f \in c.sees : f.dir = c.cwd /\ \E i \in DOMAIN c.script : c.script[i] = f.name

\* C24: a frame that is not envelope JSON changes nothing but the count of
\* frames read: no response, no child, the loop goes on to the next frame
C24_BadJsonSkipped ==
    [][(nframes' = nframes + 1 /\ frame'.body = "bad json") =>
           /\ pc' = "read"
           /\ UNCHANGED <<cfg, nmsgs, url, wfOrder, wi, ri, matched, stack, err,
                          stdout, children, execs, trace, fs, call>>]_vars

\* the second frame was answered after a first frame that was not an
\* envelope
C24_Witness ==
    /\ nframes = 2
    /\ nmsgs = 1
    /\ frame.body = "envelope"
    /\ pc = "read"
    /\ stdout # <<>>
    /\ stdout[Len(stdout)].kind = "frame"

\* C25: a frame that declares more than 10 MiB ends the daemon with its
\* payload unread and nothing written or started; the payload of a frame
\* that declares 10 MiB or less is read; nothing happens after the exit
C25_MaxSize ==
    [][/\ pc # "exited"
       /\ (nframes' = nframes + 1 /\ frame'.header = "ok") =>
              IF frame'.length > 10485760
              THEN /\ frame'.body = "unread"
                   /\ pc' = "exited"
                   /\ UNCHANGED <<nmsgs, stdout, children, execs, stack, fs>>
              ELSE frame'.body # "unread"]_vars

C25_Witness ==
    /\ frame.length = 10485761
    /\ frame.body = "unread"
    /\ pc = "exited"
    /\ nmsgs = 1

\* C26: the outbound stream holds nothing but framed responses
C26_OnlyFrames == \A i \in DOMAIN stdout : stdout[i].kind = "frame"

\* main has called Validate: loadConfig returned nil
ValidateCalled == pc # "main" /\ cfg.version # ""

\* C21: a configuration is accepted only if its version is "2", and the
\* error for a missing version contains "missing 'version'"
C21_VersionTwo ==
    pc # "main" =>
       /\ cfg.version # "2" => cfgErr # Nil
       /\ cfg.version = "" => Contains(cfgErr, "missing 'version'")

\* the job references of c, as pairs of workflow and position
Refs(c) == UNION {{<<w, i>> : i \in DOMAIN c.workflows[w].jobs} : w \in DOMAIN c.workflows}

RefAt(c, r) == c.workflows[r[1]].jobs[r[2]]

UndefinedJobs(c) == {r \in Refs(c) : RefAt(c, r).name \notin DOMAIN c.jobs}

\* references to a defined job with a match that does not compile
BadRegexes(c) ==
    {r \in Refs(c) : /\ RefAt(c, r).name \in DOMAIN c.jobs
                     /\ \E i \in DOMAIN RefAt(c, r).match : RefAt(c, r).match[i] = "("}

\* the job reference ExecuteWorkflowV2 is looking at applies to the URL
\* and names no job
SkipsMatched ==
    /\ pc = "wf"
    /\ wi <= Len(wfOrder)
    /\ ri <= Len(cfg.workflows[wfOrder[wi]].jobs)
    /\ LET jobRef == cfg.workflows[wfOrder[wi]].jobs[ri] IN
       /\ jobRef.match = <<>> \/ \E off \in 0..Len(url) : MatchAt(jobRef.match, url, off)
       /\ jobRef.name \notin DOMAIN cfg.jobs

\* C22 as stated: Validate fails with "references undefined job" whenever
\* a reference names a job that is not defined; in a configuration that
\* passed every reference resolves and no matched reference is skipped
C22_UndefinedJob ==
    /\ ValidateCalled =>
          /\ UndefinedJobs(cfg) # {} => Contains(cfgErr, "references undefined job")
          /\ cfgErr = Nil => UndefinedJobs(cfg) = {}
    /\ ~SkipsMatched

\* C22: Validate fails whenever a reference names a job that is not
\* defined, with "references undefined job" when no reference to a defined
\* job has a match that does not compile; in a configuration that passed
\* every reference resolves and no matched reference is skipped
C22_UndefinedJobFirst ==
    /\ ValidateCalled =>
          /\ UndefinedJobs(cfg) # {} => cfgErr # Nil
          /\ (UndefinedJobs(cfg) # {} /\ BadRegexes(cfg) = {}) =>
                 Contains(cfgErr, "references undefined job")
          /\ cfgErr = Nil => UndefinedJobs(cfg) = {}
    /\ ~SkipsMatched

C22_Witness ==
    /\ pc = "exited"
    /\ cfg.version = "2"
    /\ UndefinedJobs(cfg) # {}
    /\ BadRegexes(cfg) = {}
    /\ Contains(cfgErr, "references undefined job")

\* the steps of the jobs of c, as pairs of job and position
JobStepsOf(c) == UNION {{<<j, i>> : i \in DOMAIN c.jobs[j].steps} : j \in DOMAIN c.jobs}

StepAt(c, r) == c.jobs[r[1]].steps[r[2]]

UndefinedCommands(c) ==
    {r \in JobStepsOf(c) : StepAt(c, r).name # "run" /\ StepAt(c, r).name \notin DOMAIN c.commands}

UnknownBindings(c) ==
    {r \in JobStepsOf(c) :
        /\ StepAt(c, r).name # "run"
        /\ StepAt(c, r).name \in DOMAIN c.commands
        /\ \E k \in DOMAIN StepAt(c, r).params :
              k \notin DOMAIN c.commands[StepAt(c, r).name].parameters}

\* C23 as stated: Validate fails with "references undefined command" when
\* a job step names a command that is not defined, and fails when a job
\* step binds a name its command does not declare
C23_UndefinedCommand ==
    ValidateCalled =>
       /\ UndefinedCommands(cfg) # {} => Contains(cfgErr, "references undefined command")
       /\ UnknownBindings(cfg) # {} => cfgErr # Nil

\* C23: Validate fails when a job step names a command that is not defined
\* or binds a name its command does not declare; the error contains
\* "references undefined command" when a step names an undefined command,
\* every job reference is valid and no step binds an undeclared name
C23_UndefinedCommandFirst ==
    ValidateCalled =>
       /\ UndefinedCommands(cfg) # {} => cfgErr # Nil
       /\ UnknownBindings(cfg) # {} => cfgErr # Nil
       /\ (/\ UndefinedCommands(cfg) # {}
           /\ UnknownBindings(cfg) = {}
           /\ UndefinedJobs(cfg) = {}
           /\ BadRegexes(cfg) = {}) => Contains(cfgErr, "references undefined command")

C23_Witness ==
    /\ pc = "exited"
    /\ cfg.version = "2"
    /\ UndefinedCommands(cfg) # {}
    /\ UnknownBindings(cfg) = {}
    /\ UndefinedJobs(cfg) = {}
    /\ Contains(cfgErr, "references undefined command")

\* C30: in the scope of a command in progress every declared parameter has
\* the binding of the calling step, resolved in the scope of the caller,
\* when the step binds it, and its default otherwise
C30_EntryScope ==
    \A i \in 2..Len(stack) :
        LET cmdDef == cfg.commands[stack[i].name]
            step == CallStep(i)
        IN \A k \in DOMAIN cmdDef.parameters :
              IF k \in DOMAIN step.params
              THEN stack[i].scope[k] \in ResolveOutcomes(step.params[k], stack[i - 1].scope)
              ELSE stack[i].scope[k] = cmdDef.parameters[k].default

C30_Witness ==
    /\ Len(stack) = 2
    /\ CallStep(2).params = ("p" :> Tight("q"))
    /\ stack[1].scope = ("p" :> <<"v">>) @@ ("q" :> <<"u">>)
    /\ cfg.commands[stack[2].name].parameters["p"].default = <<"d">>
    /\ stack[2].scope["p"] = <<"u">>

\* the pattern, of literals and ".", matches a stretch of the URL
Found(pattern, u) ==
    \E i \in 1..Len(u) + 1 : \E j \in i - 1..Len(u) :
        /\ j - i + 1 = Len(pattern)
        /\ \A k \in 1..Len(pattern) : pattern[k] = "." \/ pattern[k] = u[i + k - 1]

\* C29: a job reference written as a bare name or with an empty match
\* matches every URL; one with a match matches exactly the URLs in which
\* the regular expression finds a match
C29_MatchSemantics ==
    (call.fn = "isMatch" /\ call.results # <<>>) =>
        call.results[1] = (\/ call.params.kind = "scalar"
                           \/ "match" \notin DOMAIN call.params.content
                           \/ call.params.content["match"] = <<>>
                           \/ Found(call.params.content["match"], call.url))

C29_Witness ==
    /\ call.fn = "isMatch"
    /\ call.params.kind = "mapping"
    /\ call.params.content = ("match" :> <<".", "b">>)
    /\ call.url = <<"a", "a", "b">>
    /\ call.results = <<TRUE>>

\* C27: cleanURL of the result of cleanURL is that result
C27_CleanIdempotent ==
    (call.fn = "cleanURL" /\ Len(call.results) = 2) => call.results[2] = call.results[1]

C27_Witness ==
    /\ call.fn = "cleanURL"
    /\ call.input = <<"?", "utm_source", "&", " ">>
    /\ call.results = <<<<"?", "+", "=">>, <<"?", "+", "=">>>>

\* the names of the tracking parameters
TrackingNames ==
    {"utm_source", "utm_medium", "utm_campaign", "utm_term", "utm_content",
     "fbclid", "gclid", "ref"}

\* the parameters written in a query, in their order, escapes decoded
\* where they can be
QueryParams(query) ==
    LET KeyOf(pr) == IF Has(pr, "=") THEN SubSeq(pr, 1, IndexOf(pr, "=", 1) - 1) ELSE pr
        ValueOf(pr) == IF Has(pr, "=") THEN SubSeq(pr, IndexOf(pr, "=", 1) + 1, Len(pr)) ELSE <<>>
        Decoded(x) == [i \in DOMAIN x |-> QueryUnescapeTok(x[i])]
        pairs == SelectSeq(Split(query, "&"), LAMBDA pr : pr # <<>>)
    IN [i \in DOMAIN pairs |->
          [key |-> Decoded(KeyOf(pairs[i])), value |-> Decoded(ValueOf(pairs[i]))]]

\* the values of key k among the parameters ps, in their order
ValuesOf(ps, k) ==
    LET own == SelectSeq(ps, LAMBDA pr : pr.key = k) IN [i \in DOMAIN own |-> own[i].value]

Tracking(k) == Len(k) = 1 /\ k[1] \in TrackingNames

Unescaped(path) == [i \in DOMAIN path |-> PathUnescapeTok(path[i])]

\* the scheme and host of a URL, the scheme without regard to case
SchemeHost(rawURL) == IF HasHead(rawURL) THEN "http://h/" ELSE ""

\* C28: the result of cleanURL on a URL that parses has no tracking
\* parameter, has every other parameter of the input with its values, and
\* has the scheme, host and path of the input (the scheme without regard
\* to case, the path without regard to how it is escaped)
C28_TrackingRemoved ==
    (call.fn = "cleanURL" /\ call.results # <<>> /\ ~ParseFails(call.input)) =>
        LET in == QueryParams(RawQuery(call.input))
            out == QueryParams(RawQuery(call.results[1]))
        IN /\ \A i \in DOMAIN out : ~Tracking(out[i].key)
           /\ \A i \in DOMAIN in :
                 ~Tracking(in[i].key) => ValuesOf(out, in[i].key) = ValuesOf(in, in[i].key)
           /\ SchemeHost(call.results[1]) = SchemeHost(call.input)
           /\ Unescaped(RawPath(call.results[1])) = Unescaped(RawPath(call.input))

\* C31: the inline keys of a workflow job reference other than match are
\* the entry scope of the job, match is not among them, and a shell step
\* of the job gets the inline value in place of <<parameters.p>>
C31_InlineBindings ==
    (pc = "child" /\ Len(stack) = 1) =>
        /\ "match" \notin DOMAIN stack[1].scope
        /\ stack[1].scope = CurrentRef.params
        /\ (Top.steps[Top.idx] = RunP /\ "p" \in DOMAIN CurrentRef.params) =>
              children[Len(children)].script = <<"echo">> \o CurrentRef.params["p"] \o url

\* references with a non-empty match that does not compile
NonCompiling(c) ==
    {r \in Refs(c) : \E i \in DOMAIN RefAt(c, r).match : RefAt(c, r).match[i] = "("}

\* the job reference ExecuteWorkflowV2 is looking at has a pattern that
\* does not compile
MeetsNonCompiling ==
    /\ pc = "wf"
    /\ wi <= Len(wfOrder)
    /\ ri <= Len(cfg.workflows[wfOrder[wi]].jobs)
    /\ \E i \in DOMAIN cfg.workflows[wfOrder[wi]].jobs[ri].match :
          cfg.workflows[wfOrder[wi]].jobs[ri].match[i] = "("

\* C32 as stated: Validate fails with "invalid match regex" whenever a
\* reference has a non-empty match that does not compile; while a message
\* is processed the matcher meets no pattern that does not compile
C32_InvalidRegex ==
    /\ ValidateCalled =>
          /\ NonCompiling(cfg) # {} => Contains(cfgErr, "invalid match regex")
          /\ cfgErr = Nil => NonCompiling(cfg) = {}
    /\ ~MeetsNonCompiling

\* C32: Validate fails whenever a reference has a non-empty match that
\* does not compile, with "invalid match regex" when no reference names an
\* undefined job; while a message is processed the matcher meets no
\* pattern that does not compile
C32_InvalidRegexFirst ==
    /\ ValidateCalled =>
          /\ NonCompiling(cfg) # {} => cfgErr # Nil
          /\ (NonCompiling(cfg) # {} /\ UndefinedJobs(cfg) = {}) =>
                 Contains(cfgErr, "invalid match regex")
          /\ cfgErr = Nil => NonCompiling(cfg) = {}
    /\ ~MeetsNonCompiling

C32_Witness ==
    /\ pc = "exited"
    /\ cfg.version = "2"
    /\ NonCompiling(cfg) # {}
    /\ UndefinedJobs(cfg) = {}
    /\ nframes = 0
    /\ Contains(cfgErr, "invalid match regex")

\* the loop has returned on the end of the stream met where a length
\* prefix was due
CleanShutdown == pc = "exited" /\ frame.header = "eof"

\* nothing of a message is in progress
NothingInProgress ==
    /\ stack = <<>>
    /\ \A i \in DOMAIN children : children[i].status # "running"
    /\ \A i \in DOMAIN execs : execs[i].status # "running"

\* C33 as stated: when the loop has returned on the end of the stream,
\* every frame read before has been processed and answered
C33_CleanShutdown ==
    CleanShutdown =>
        /\ NothingInProgress
        /\ Len(ResponseFrames) = nframes

\* C33: when the loop has returned on the end of the stream, every
\* envelope decoded before has been processed and answered, in the order
\* of arrival, and the frames that were not JSON have no response
C33_CleanShutdownDecoded ==
    CleanShutdown =>
        /\ NothingInProgress
        /\ Len(ResponseFrames) = nmsgs
        /\ \A k \in DOMAIN ResponseFrames : ResponseFrames[k].msg = k
        /\ nmsgs <= nframes

C33_Witness ==
    /\ CleanShutdown
    /\ nframes = 2
    /\ nmsgs = 1
    /\ Len(ResponseFrames) = 1
    /\ children # <<>>

\* the map a job in progress resolves from is the Params map of its
\* reference in the configuration, not a copy: they have the same entries
ScopeIsRefParams == stack # <<>> => stack[1].scope = CurrentRef.params

\* C34: no step of the daemon changes the configuration: commands, jobs
\* and workflows stay what they were after load, and so do the parameters
\* of a job reference, which a job in progress shares
C34_ConfigImmutable == [][cfg' = cfg /\ ScopeIsRefParams']_vars

C34_Witness ==
    /\ nmsgs = 2
    /\ Len(ResponseFrames) = 1
    /\ pc = "child"
    /\ Len(stack) = 1
    /\ Top.idx = 2
    /\ Top.steps[1] = RunSave
    /\ CurrentRef.params = ("p" :> <<"v">>) @@ ("q" :> <<"u">>)
    /\ children[Len(children)].script = <<"echo", "v", "a", "b">>

Running == {i \in DOMAIN children : children[i].status = "running"}

\* C35: at most one child is running, the engine is then waiting for it,
\* and no child of a message is running once the response of the message
\* has been written
C35_OneChildAtATime ==
    /\ Cardinality(Running) <= 1
    /\ Running # {} => (pc = "child" /\ Running = {Len(children)})
    /\ \A i \in Running :
          \A k \in DOMAIN ResponseFrames : ResponseFrames[k].msg # children[i].msg

C35_Witness ==
    /\ pc = "child"
    /\ Len(children) = 2
    /\ children[1].status = "ok"
    /\ children[2].status = "running"
    /\ children[1].msg = children[2].msg
    /\ Len(ResponseFrames) = nmsgs - 1

\* what the URLs of the envelopes are once cleaned
Canonical ==
    (<<"a", "b">> :> <<"a", "b">>)
        @@ (<<"c", "?", "utm_source", "&", "keep">> :> <<"c", "?", "keep", "=">>)

\* the step at a path of positions, from the steps of a job inwards
RECURSIVE StepOfPath(_, _)
StepOfPath(steps, path) ==
    IF Len(path) = 1 THEN steps[path[1]]
    ELSE StepOfPath(cfg.commands[steps[path[1]].name].steps, Tail(path))

\* the step child i was started for
ChildStep(i) == StepOfPath(cfg.jobs[execs[children[i].exec].name].steps, children[i].path)

\* script ends with u
EndsWith(script, u) ==
    /\ Len(script) >= Len(u)
    /\ SubSeq(script, Len(script) - Len(u) + 1, Len(script)) = u

\* C36: while and after an envelope is processed, the jobs executed are
\* those of references that match the cleaned URL, a script with {url}, at
\* any depth, has the cleaned URL in its place, and the error for no match
\* names the cleaned URL
C36_CleanedUrlUsed ==
    frame.body = "envelope" =>
        LET cleaned == Canonical[frame.url] IN
        /\ \A i \in DOMAIN execs :
              LET jobRef == cfg.workflows[execs[i].wf].jobs[execs[i].ri] IN
              jobRef.match = <<>> \/ Found(jobRef.match, cleaned)
        /\ \A i \in DOMAIN children :
              ChildStep(i) = RunP =>
                 /\ EndsWith(children[i].script, cleaned)
                 /\ "utm_source" \notin Range(children[i].script)
        /\ \A k \in DOMAIN ResponseFrames :
              (ResponseFrames[k].msg = nmsgs
                  /\ ResponseFrames[k].err.kind = "no matching jobs found for url")
                 => ResponseFrames[k].err.url = cleaned

C36_Witness ==
    /\ frame.url = <<"c", "?", "utm_source", "&", "keep">>
    /\ pc = "child"
    /\ Len(stack) = 2
    /\ children[Len(children)].script = <<"echo", "d", "c", "?", "keep", "=">>
    /\ Len(cfg.workflows["w1"].jobs) = 2

\* a mapping of one key: the key and the node of its value
OneKey(node) == node.kind = "mapping" /\ Len(node.content) = 1

\* C37: Step.UnmarshalYAML returns nil only for a scalar or a mapping of
\* one key; it fails for a mapping of no or several keys, for a string
\* under a key other than run, and for a sequence in place of the step or
\* of the value; under run a string becomes the script, and under any
\* other key a mapping of strings becomes the bindings
C37_StepDecoding ==
    (call.fn = "StepUnmarshalYAML" /\ call.results # <<>>) =>
        LET node == call.params
            r == call.results[1]
        IN /\ r.err = Nil => (node.kind = "scalar" \/ OneKey(node))
           /\ (node.kind = "mapping" /\ Len(node.content) # 1) => r.err # Nil
           /\ node.kind = "sequence" => r.err # Nil
           /\ OneKey(node) =>
                 LET key == node.content[1].key
                     valNode == node.content[1].val
                 IN /\ (key # "run" /\ valNode.kind = "scalar") => r.err # Nil
                    /\ valNode.kind = "sequence" => r.err # Nil
                    /\ (key = "run" /\ valNode.kind = "scalar") =>
                          /\ r.err = Nil
                          /\ r.step = Step("run", valNode.text, EmptyMap)
                    /\ (/\ key # "run"
                        /\ valNode.kind = "mapping"
                        /\ \A k \in DOMAIN valNode.content : valNode.content[k].kind = "scalar") =>
                          /\ r.err = Nil
                          /\ r.step.name = key
                          /\ r.step.args = <<>>
                          /\ DOMAIN r.step.params = DOMAIN valNode.content
                          /\ \A k \in DOMAIN valNode.content :
                                r.step.params[k] = valNode.content[k].text

C37_Witness ==
    /\ call.fn = "StepUnmarshalYAML"
    /\ OneKey(call.params)
    /\ call.params.content[1].key = "c1"
    /\ call.params.content[1].val.kind = "scalar"
    /\ call.results # <<>>
    /\ Contains(call.results[1].err, "' (only 'run' supports this)")

\* C38: the result of resolveParams on a template and a scope is the same
\* in whatever order the entries of the scope are visited
C38_Deterministic ==
    (call.fn = "resolveParams" /\ call.results # <<>>) =>
        \A order \in Perms(DOMAIN call.params) :
            resolveParams(call.input, call.params, order) = call.results[1]

\* a step has just failed because its name is neither run nor a command
UnknownStepFailed == pc = "fail" /\ err.kind = "unknown command or step"

\* C39 as stated: in a configuration that passed Validate no step fails
\* with "unknown command or step"
C39_NoUnknownStep == cfgErr = Nil => ~UnknownStepFailed

\* C39: in a configuration that passed Validate no step of a job fails
\* with "unknown command or step"; a step that does is a step of a
\* command, whose steps Validate does not look at
C39_NoUnknownJobStep ==
    (cfgErr = Nil /\ UnknownStepFailed) =>
        /\ Len(stack) >= 2
        /\ Top.kind = "cmd"
        /\ Top.steps[Top.idx].name \notin DOMAIN cfg.commands \cup {"run"}
        /\ \A i \in DOMAIN stack[1].steps : stack[1].steps[i].name \in DOMAIN cfg.commands \cup {"run"}

C39_Witness ==
    /\ cfgErr = Nil
    /\ UnknownStepFailed
    /\ Len(stack) = 3
    /\ err.name = "zz"
    /\ Top.idx = 2

\* C40 as stated: in a configuration that passed Validate no command is
\* entered while it is in progress, so that the nesting of the calls is
\* bounded by the number of commands
C40_FiniteNesting ==
    cfgErr = Nil =>
        \A i, j \in 2..Len(stack) : i # j => stack[i].name # stack[j].name

====
